---- MODULE Spec2Model ----
(***************************************************************************)
(* Model of SMTCInternal (packages/smtc_windows/rust/src/internal/         *)
(* smtc_internal.rs): the wrapper around the Windows                       *)
(* SystemMediaTransportControls object of a MediaPlayer.                   *)
(*                                                                         *)
(* The native session is modelled by the properties the wrapper writes.    *)
(* Every native call can fail; a failed native call has no effect on the   *)
(* native state.  Which call fails is an input of each operation (`fault`, *)
(* the name of the failing native call, or NoFault).                       *)
(*                                                                         *)
(* A Session Handle operation is two steps of the application thread: the  *)
(* call (call_<op>, which fixes the arguments) and the body (<op>, the     *)
(* whole function, run to its return).  `call` holds the arguments while   *)
(* the body has not run, and the result afterwards.  A body that blocks    *)
(* on an operation of the OS is "waiting" until that operation completes.  *)
(***************************************************************************)
EXTENDS Integers, Sequences, FiniteSets, TLC

VARIABLES
    process,        \* "running" | "aborted"
    flags,          \* native capability flags of the transport controls
    pending,        \* DisplayUpdater properties written but not yet committed
    displayed,      \* DisplayUpdater properties as last committed by Update()
    handlers,       \* per event category: the sinks of the installed handlers
    emitted,        \* per sink: the items pushed (by the last Dispatch)
    event,          \* the last native event dispatched and its acknowledgment
    call,           \* the last Session Handle operation, its inputs and result
    session,        \* the SMTCInternal value and the other native properties
    lookup,         \* the file lookup of the current call: idle, running, completed
    threads,        \* per OS thread: the native event it is delivering
    counts          \* events raised; per sink, the handler runs that matched

vars ==
    <<process, flags, pending, displayed, handlers, emitted, event, call,
      session, lookup, threads, counts>>

NoFault == "none"

\* Option<T>: None is the empty set, Some(v) the singleton {v}.
None == {}
Some(v) == {v}
Unwrap(o) == CHOOSE v \in o : TRUE

Idle == call.phase = "returned"
Returned(op, status) == [op |-> op, phase |-> "returned", status |-> status]

\* The body of operation `op` is about to run.
Runs(op) == call.phase = "invoked" /\ call.op = op

(***************************************************************************)
(* update_config                                                           *)
(***************************************************************************)

\* The seven native flag properties, in the order update_config writes them.
FlagNames ==
    <<"IsPlayEnabled", "IsPauseEnabled", "IsNextEnabled", "IsPreviousEnabled",
      "IsFastForwardEnabled", "IsRewindEnabled", "IsStopEnabled">>

FlagSet == {FlagNames[i] : i \in 1..Len(FlagNames)}

\* The native setter of each flag, in the same order.
FlagSetters ==
    <<"SetIsPlayEnabled", "SetIsPauseEnabled", "SetIsNextEnabled",
      "SetIsPreviousEnabled", "SetIsFastForwardEnabled", "SetIsRewindEnabled",
      "SetIsStopEnabled">>

\* SMTCConfig: one boolean per capability.
SMTCConfig ==
    [play_enabled : BOOLEAN, pause_enabled : BOOLEAN, next_enabled : BOOLEAN,
     prev_enabled : BOOLEAN, fast_forward_enabled : BOOLEAN,
     rewind_enabled : BOOLEAN, stop_enabled : BOOLEAN]

ConfigWrites_prevFromNext(config) ==
    <<config.play_enabled, config.pause_enabled, config.next_enabled,
      config.next_enabled, config.fast_forward_enabled,
      config.rewind_enabled, config.stop_enabled>>

\* The value update_config passes to the i-th native setter.
ConfigWrites(config) ==
    <<config.play_enabled, config.pause_enabled, config.next_enabled,
      config.prev_enabled, config.fast_forward_enabled,
      config.rewind_enabled, config.stop_enabled>>

\* The native calls update_config makes.
ConfigCalls ==
    {"SystemMediaTransportControls"} \cup
    {FlagSetters[i] : i \in 1..Len(FlagSetters)}

RECURSIVE SetFlags_ignoreErrors(_, _, _, _)
SetFlags_ignoreErrors(fl, writes, i, fault) ==
    IF i > Len(FlagNames) THEN
        [flags |-> fl, status |-> IF fault = NoFault THEN "Ok" ELSE "Err"]
    ELSE IF fault = FlagSetters[i] THEN
        SetFlags_ignoreErrors(fl, writes, i + 1, fault)
    ELSE
        SetFlags_ignoreErrors([fl EXCEPT ![FlagNames[i]] = writes[i]],
                              writes, i + 1, fault)

\* The setters i..7 of update_config applied to the flags fl: each is
\* `smtc.SetIs..Enabled(..)?`, so the first failing setter returns the error
\* and the setters after it are not called.
RECURSIVE SetFlags(_, _, _, _)
SetFlags(fl, writes, i, fault) ==
    IF i > Len(FlagNames) THEN
        [flags |-> fl, status |-> "Ok"]
    ELSE IF fault = FlagSetters[i] THEN
        [flags |-> fl, status |-> "Err"]
    ELSE
        SetFlags([fl EXCEPT ![FlagNames[i]] = writes[i]], writes, i + 1, fault)

call_update_config(config, fault) ==
    /\ process = "running"
    /\ Idle
    /\ call' = [op |-> "update_config", phase |-> "invoked",
                config |-> config, fault |-> fault]
    /\ UNCHANGED <<process, flags, pending, displayed, handlers, emitted, event,
                   session, lookup, threads, counts>>

update_config ==
    /\ process = "running"
    /\ call.phase = "invoked"
    /\ call.op = "update_config"
    /\ LET r == IF call.fault = "SystemMediaTransportControls"
                THEN [flags |-> flags, status |-> "Err"]
                ELSE SetFlags(flags, ConfigWrites(call.config), 1, call.fault)
       IN /\ flags' = r.flags
          /\ call' = Returned("update_config", r.status)
    /\ UNCHANGED <<process, pending, displayed, handlers, emitted, event,
                   session, lookup, threads, counts>>

(***************************************************************************)
(* update_metadata, clear_metadata                                         *)
(***************************************************************************)

\* MusicMetadata: five optional strings (title, artist, album, album_artist,
\* thumbnail).  The metadata values the application publishes here: nothing,
\* every text field, and two half-filled ones with a remote and a local
\* thumbnail reference.
MetadataSamples ==
    { [title |-> None, artist |-> None, album |-> None,
       album_artist |-> None, thumbnail |-> None],
      [title |-> Some("t1"), artist |-> Some("r1"), album |-> Some("l1"),
       album_artist |-> Some("b1"), thumbnail |-> None],
      [title |-> Some("t2"), artist |-> Some("r2"), album |-> None,
       album_artist |-> None, thumbnail |-> Some("http://h/a.png")],
      [title |-> None, artist |-> None, album |-> Some("l3"),
       album_artist |-> Some("b3"), thumbnail |-> Some("C:/a.png")] }

\* Metadata that differ in the thumbnail reference only.
ThumbnailSamples ==
    [title : {Some("t1")}, artist : {None}, album : {None},
     album_artist : {None},
     thumbnail : {None, Some("http://h/a.png"), Some("https://h/a.png"),
                  Some("httpfoo"), Some("http"), Some("HTTP://h/a.png"),
                  Some("htt"), Some(""), Some("C:/http.png"),
                  Some("file.png")}]

\* The application ids it passes.
AppIds == {None, Some("app")}

\* The accessors of MusicMetadata that update_metadata uses: the field as an
\* optional native string, and the thumbnail as the raw string.
h_artist(metadata) == metadata.artist
h_album(metadata) == metadata.album
h_title(metadata) == metadata.title
h_album_artist(metadata) == metadata.album_artist
h_thumbnail(metadata) == metadata.thumbnail
h_thumbnail_raw(metadata) ==
    IF metadata.thumbnail = None THEN "" ELSE Unwrap(metadata.thumbnail)

\* str::starts_with
starts_with_scheme(s, prefix) ==
    /\ Len(s) >= Len(prefix) + 3
    /\ SubSeq(s, 1, Len(prefix) + 3) = prefix \o "://"

starts_with(s, prefix) ==
    /\ Len(s) >= Len(prefix)
    /\ SubSeq(s, 1, Len(prefix)) = prefix

\* A RandomAccessStreamReference, or the null reference.
NullReference == [kind |-> "null", of |-> ""]
UriReference(s) == [kind |-> "uri", of |-> s]
FileReference(s) == [kind |-> "file", of |-> s]

\* The properties of the DisplayUpdater after ClearAll().
Cleared ==
    [Type |-> "Unknown", AppMediaId |-> "", Artist |-> "", AlbumTitle |-> "",
     Title |-> "", AlbumArtist |-> "", Thumbnail |-> NullReference]

\* `option.map(|s| setter(&s))`: the setter is called when the option is Some
\* and its Result is dropped, so a failing setter leaves the property as it
\* was and the function goes on.
MapSet(u, property, option, setter, fault) ==
    IF option # None /\ fault # setter
    THEN [u EXCEPT ![property] = Unwrap(option)]
    ELSE u

\* Lines 80-97: the thumbnail as Some(reference), None, or a panic of one of
\* the unwrap() calls.
Thumbnail(metadata, fault) ==
    IF h_thumbnail(metadata) # None THEN
        LET s == Unwrap(h_thumbnail(metadata))
            is_url == starts_with(h_thumbnail_raw(metadata), "http")
        IN IF is_url THEN
               IF fault \in {"CreateUri", "CreateFromUri"}
               THEN [panic |-> TRUE, path |-> "url", value |-> None]
               ELSE [panic |-> FALSE, path |-> "url",
                     value |-> Some(UriReference(s))]
           ELSE
               IF fault \in {"GetFileFromPathAsync", "get"}
               THEN [panic |-> FALSE, path |-> "file", value |-> None]
               ELSE IF fault = "CreateFromFile"
               THEN [panic |-> TRUE, path |-> "file", value |-> None]
               ELSE [panic |-> FALSE, path |-> "file",
                     value |-> Some(FileReference(s))]
    ELSE [panic |-> FALSE, path |-> "none", value |-> None]

\* Lines 99-104: SetThumbnail(..)?, then Update()?, which makes the pending
\* properties the displayed ones.
Commit_updateFirst(u, shown, thumbnail, fault) ==
    IF fault = "Update" THEN
        [pending |-> u, displayed |-> shown, status |-> "Err"]
    ELSE IF fault = "SetThumbnail" THEN
        [pending |-> u, displayed |-> u, status |-> "Err"]
    ELSE
        LET t == IF thumbnail = None THEN NullReference ELSE Unwrap(thumbnail)
            u2 == [u EXCEPT !.Thumbnail = t]
        IN [pending |-> u2, displayed |-> u, status |-> "Ok"]

Commit(u, shown, thumbnail, fault) ==
    IF fault = "SetThumbnail" THEN
        [pending |-> u, displayed |-> shown, status |-> "Err"]
    ELSE
        LET t == IF thumbnail = None THEN NullReference ELSE Unwrap(thumbnail)
            u2 == [u EXCEPT !.Thumbnail = t]
        IN IF fault = "Update"
           THEN [pending |-> u2, displayed |-> shown, status |-> "Err"]
           ELSE [pending |-> u2, displayed |-> u2, status |-> "Ok"]

\* The body of update_metadata on the pending properties u and the
\* displayed properties shown.
UpdateMetadata(u, shown, metadata, app_id, fault) ==
    IF fault \in {"SystemMediaTransportControls", "DisplayUpdater", "ClearAll"}
    THEN [pending |-> u, displayed |-> shown, status |-> "Err"]
    ELSE
    LET u1 == MapSet(Cleared, "AppMediaId", app_id, "SetAppMediaId", fault)
    IN
    IF fault = "SetType"
    THEN [pending |-> u1, displayed |-> shown, status |-> "Err"]
    ELSE
    LET u2 == [u1 EXCEPT !.Type = "Music"]
    IN
    IF fault = "MusicProperties"
    THEN [pending |-> u2, displayed |-> shown, status |-> "Err"]
    ELSE
    LET u3 == MapSet(u2, "Artist", h_artist(metadata), "SetArtist", fault)
        u4 == MapSet(u3, "AlbumTitle", h_album(metadata), "SetAlbumTitle", fault)
        u5 == MapSet(u4, "Title", h_title(metadata), "SetTitle", fault)
        u6 == MapSet(u5, "AlbumArtist", h_album_artist(metadata),
                     "SetAlbumArtist", fault)
        thumbnail == Thumbnail(metadata, fault)
    IN
    IF thumbnail.panic
    THEN [pending |-> u6, displayed |-> shown, status |-> "Panic"]
    ELSE Commit(u6, shown, thumbnail.value, fault)

\* The native calls update_metadata makes for the given arguments when none
\* of them fails.
MetadataCalls(metadata, app_id) ==
    {"SystemMediaTransportControls", "DisplayUpdater", "ClearAll", "SetType",
     "MusicProperties", "SetThumbnail", "Update"}
    \cup (IF app_id # None THEN {"SetAppMediaId"} ELSE {})
    \cup (IF h_artist(metadata) # None THEN {"SetArtist"} ELSE {})
    \cup (IF h_album(metadata) # None THEN {"SetAlbumTitle"} ELSE {})
    \cup (IF h_title(metadata) # None THEN {"SetTitle"} ELSE {})
    \cup (IF h_album_artist(metadata) # None THEN {"SetAlbumArtist"} ELSE {})
    \cup (IF h_thumbnail(metadata) = None THEN {}
          ELSE IF starts_with(h_thumbnail_raw(metadata), "http")
          THEN {"CreateUri", "CreateFromUri"}
          ELSE {"GetFileFromPathAsync", "get", "CreateFromFile"})

\* Whether the body reaches `async_op.get()` (line 88), the blocking wait for
\* the file lookup: the thumbnail is present and not a URL, no call with `?`
\* before line 80 fails, and GetFileFromPathAsync returns the operation.
Waits_never(metadata, fault) == FALSE

Waits(metadata, fault) ==
    /\ h_thumbnail(metadata) # None
    /\ ~starts_with(h_thumbnail_raw(metadata), "http")
    /\ fault \notin {"SystemMediaTransportControls", "DisplayUpdater", "ClearAll",
                     "SetType", "MusicProperties", "GetFileFromPathAsync"}

\* The call; a body that reaches the blocking wait stays in it ("waiting")
\* until the lookup completes.
call_update_metadata(metadata, app_id, fault) ==
    /\ process = "running"
    /\ Idle
    /\ fault \in {NoFault} \cup MetadataCalls(metadata, app_id)
    /\ call' = [op |-> "update_metadata",
                phase |-> IF Waits(metadata, fault) THEN "waiting"
                          ELSE "invoked",
                metadata |-> metadata, app_id |-> app_id, fault |-> fault]
    /\ lookup' = IF Waits(metadata, fault) THEN "running" ELSE "idle"
    /\ UNCHANGED <<process, flags, pending, displayed, handlers, emitted, event,
                   session, threads, counts>>

\* The OS completes the file lookup at some time of its own (with the file,
\* or with the error of fault "get"); `async_op.get()` has no timeout and
\* returns only then.
GetFileFromPathAsync_completes ==
    /\ process = "running"
    /\ call.phase = "waiting"
    /\ lookup = "running"
    /\ lookup' = "completed"
    /\ call' = [call EXCEPT !.phase = "invoked"]
    /\ UNCHANGED <<process, flags, pending, displayed, handlers, emitted, event,
                   session, threads, counts>>

\* The body runs to its return.
update_metadata ==
    /\ process = "running"
    /\ Runs("update_metadata")
    /\ LET r == UpdateMetadata(pending, displayed, call.metadata, call.app_id,
                               call.fault)
       IN /\ pending' = r.pending
          /\ displayed' = r.displayed
          /\ call' = Returned("update_metadata", r.status)
    /\ lookup' = "idle"
    /\ UNCHANGED <<process, flags, handlers, emitted, event,
                   session, threads, counts>>

ClearMetadataCalls ==
    {"SystemMediaTransportControls", "DisplayUpdater", "ClearAll", "Update"}

call_clear_metadata(fault) ==
    /\ process = "running"
    /\ Idle
    /\ call' = [op |-> "clear_metadata", phase |-> "invoked", fault |-> fault]
    /\ UNCHANGED <<process, flags, pending, displayed, handlers, emitted, event,
                   session, lookup, threads, counts>>

clear_metadata ==
    /\ process = "running"
    /\ call.phase = "invoked"
    /\ call.op = "clear_metadata"
    /\ IF call.fault \in
              {"SystemMediaTransportControls", "DisplayUpdater", "ClearAll"}
       THEN /\ UNCHANGED <<pending, displayed>>
            /\ call' = Returned("clear_metadata", "Err")
       ELSE IF call.fault = "Update"
       THEN /\ pending' = Cleared
            /\ UNCHANGED displayed
            /\ call' = Returned("clear_metadata", "Err")
       ELSE /\ pending' = Cleared
            /\ displayed' = Cleared
            /\ call' = Returned("clear_metadata", "Ok")
    /\ UNCHANGED <<process, flags, handlers, emitted, event,
                   session, lookup, threads, counts>>

(***************************************************************************)
(* Event registration and the native event handlers                        *)
(***************************************************************************)

MaxRegistrations == 3

Categories == {"button", "position", "shuffle", "repeat"}

\* The sinks the application passes to the registration operations.
Sinks == {"S1", "S2"}

\* SystemMediaTransportControlsButton: the ten named buttons and a value
\* outside them.
Buttons ==
    {"Play", "Pause", "Stop", "Record", "FastForward", "Rewind", "Next",
     "Previous", "ChannelUp", "ChannelDown", "Unnamed"}

\* MediaPlaybackAutoRepeatMode: the three named modes and a value outside
\* them.
RepeatModes == {"None", "Track", "List", "Unnamed"}

\* TimeSpan.Duration values of a requested position, in 100 ns units.
Durations == {0, 5000, 10000, 25000, 600000000}

\* What a native event of each category can request.
Requests(category) ==
    CASE category = "button" -> Buttons
      [] category = "position" -> Durations
      [] category = "shuffle" -> BOOLEAN
      [] category = "repeat" -> RepeatModes

\* The event arguments a handler receives: absent (a null reference), or
\* present with a getter that fails, or present with a readable value.
EventArgs(category) ==
    {[present |-> FALSE, readable |-> FALSE, value |-> v] :
        v \in {CHOOSE w \in Requests(category) : TRUE}}
    \cup [present : {TRUE}, readable : BOOLEAN, value : Requests(category)]

\* The match of the button handler: the items it adds to its sink.
button_items_defaultArm(button) ==
    CASE button = "Play" -> <<"play">>
      [] button = "Pause" -> <<"pause">>
      [] button = "Next" -> <<"next">>
      [] button = "Previous" -> <<"previous">>
      [] button = "FastForward" -> <<"fast_forward">>
      [] button = "Rewind" -> <<"rewind">>
      [] button = "Stop" -> <<"stop">>
      [] button = "Record" -> <<"record">>
      [] button = "ChannelUp" -> <<"channel_up">>
      [] button = "ChannelDown" -> <<"channel_down">>
      [] OTHER -> <<"stop">>

button_items(button) ==
    CASE button = "Play" -> <<"play">>
      [] button = "Pause" -> <<"pause">>
      [] button = "Next" -> <<"next">>
      [] button = "Previous" -> <<"previous">>
      [] button = "FastForward" -> <<"fast_forward">>
      [] button = "Rewind" -> <<"rewind">>
      [] button = "Stop" -> <<"stop">>
      [] button = "Record" -> <<"record">>
      [] button = "ChannelUp" -> <<"channel_up">>
      [] button = "ChannelDown" -> <<"channel_down">>
      [] OTHER -> <<>>

\* The match of the repeat-mode handler.
repeat_items_dropOther(repeat_mode) ==
    CASE repeat_mode = "None" -> <<"none">>
      [] repeat_mode = "Track" -> <<"track">>
      [] repeat_mode = "List" -> <<"list">>
      [] OTHER -> <<>>

repeat_items(repeat_mode) ==
    CASE repeat_mode = "None" -> <<"none">>
      [] repeat_mode = "Track" -> <<"track">>
      [] repeat_mode = "List" -> <<"list">>
      [] OTHER -> <<"none">>

\* The position handler adds the Duration field of the requested TimeSpan.
position_items(duration) == <<duration>>

\* The shuffle handler adds the requested flag.
shuffle_items(shuffle) == <<shuffle>>

\* One run of the handler closure of a category: `args.as_ref().unwrap()`
\* panics on absent arguments, the unwrap() of the getter's Result panics
\* when the getter fails; otherwise the items are added and Ok(()) returned.
Handler(category, args) ==
    IF ~args.present \/ ~args.readable THEN
        [panic |-> TRUE, items |-> <<>>]
    ELSE
        [panic |-> FALSE,
         items |-> CASE category = "button" -> button_items(args.value)
                     [] category = "position" -> position_items(args.value)
                     [] category = "shuffle" -> shuffle_items(args.value)
                     [] category = "repeat" -> repeat_items(args.value)]

\* The native event source calls the installed handlers in the order they
\* were added; each pushes its items on the sink it captured.
RECURSIVE Deliver(_, _, _)
Deliver(installed, items, sunk) ==
    IF installed = <<>> THEN sunk
    ELSE Deliver(Tail(installed), items,
                 [sunk EXCEPT ![Head(installed)] = @ \o items])

NothingEmitted == [s \in Sinks |-> <<>>]

Registrations ==
    Len(handlers["button"]) + Len(handlers["position"])
    + Len(handlers["shuffle"]) + Len(handlers["repeat"])

RegistrationCalls(category) ==
    {"SystemMediaTransportControls",
     CASE category = "button" -> "ButtonPressed"
       [] category = "position" -> "PlaybackPositionChangeRequested"
       [] category = "shuffle" -> "ShuffleEnabledChangeRequested"
       [] category = "repeat" -> "AutoRepeatModeChangeRequested"}

\* The four registration operations: build the handler around the sink and
\* add it to the native event (`smtc.<Event>(&handler)?`); the registration
\* token the native call returns is dropped and no handler is ever removed.
Register(op, category, sink, fault) ==
    /\ process = "running"
    /\ Idle
    /\ Registrations < MaxRegistrations
    /\ IF fault = NoFault
       THEN /\ handlers' = [handlers EXCEPT ![category] = Append(@, sink)]
            /\ call' = Returned(op, "Ok")
       ELSE /\ UNCHANGED handlers
            /\ call' = Returned(op, "Err")
    /\ UNCHANGED <<process, flags, pending, displayed, emitted, event,
                   session, lookup, threads, counts>>

button_press_event(sink, fault) ==
    Register("button_press_event", "button", sink, fault)

position_change_request_event(sink, fault) ==
    Register("position_change_request_event", "position", sink, fault)

shuffle_request_event(sink, fault) ==
    Register("shuffle_request_event", "shuffle", sink, fault)

repeat_mode_request_event(sink, fault) ==
    Register("repeat_mode_request_event", "repeat", sink, fault)

\* The OS raises an event of a category on one of its threads and calls the
\* handlers installed for it.  A panic of a handler leaves the closure through
\* the `extern "system"` Invoke function of the delegate: it unwinds into the
\* native caller or aborts the process, depending on the toolchain.
Dispatch(category, args) ==
    /\ process = "running"
    /\ handlers[category] # <<>>
    /\ LET h == Handler(category, args)
       IN IF h.panic
          THEN /\ emitted' = NothingEmitted
               /\ event' = [category |-> category, args |-> args,
                            installed |-> handlers[category],
                            ack |-> "Panic"]
               /\ process' \in {"running", "aborted"}
          ELSE /\ emitted' = Deliver(handlers[category], h.items,
                                     NothingEmitted)
               /\ event' = [category |-> category, args |-> args,
                            installed |-> handlers[category], ack |-> "Ok"]
               /\ UNCHANGED process
    /\ UNCHANGED <<flags, pending, displayed, handlers, call, session, lookup>>

ButtonPressed(args) ==
    Dispatch("button", args) /\ UNCHANGED <<threads, counts>>
PlaybackPositionChangeRequested(args) ==
    Dispatch("position", args) /\ UNCHANGED <<threads, counts>>
ShuffleEnabledChangeRequested(args) ==
    Dispatch("shuffle", args) /\ UNCHANGED <<threads, counts>>
AutoRepeatModeChangeRequested(args) ==
    Dispatch("repeat", args) /\ UNCHANGED <<threads, counts>>

(***************************************************************************)
(* The SMTCInternal value and the remaining native properties: creation,   *)
(* enable/disable, shuffle, repeat mode, playback status and timeline.     *)
(***************************************************************************)

unwrap_or(option, default) == IF option = None THEN default ELSE Unwrap(option)

\* The domain timelines handed to update_timeline (milliseconds).
PlaybackTimeline ==
    [positionMs : {0, 5}, minSeekMs : {0, 5}, maxSeekMs : {0, 5}]

\* `timeline.into()`: the native timeline properties in 100 ns ticks, or an
\* error when minSeekMs <= positionMs <= maxSeekMs does not hold.
timeline_into(timeline) ==
    IF timeline.minSeekMs <= timeline.positionMs
       /\ timeline.positionMs <= timeline.maxSeekMs
    THEN [ok |-> TRUE,
          value |-> [Position |-> timeline.positionMs * 10000,
                     MinSeekTime |-> timeline.minSeekMs * 10000,
                     MaxSeekTime |-> timeline.maxSeekMs * 10000]]
    ELSE [ok |-> FALSE, value |-> None]

\* The domain playback statuses and `status.into()`, one native value each.
PlaybackStatus ==
    {"Closed", "Opened", "Changing", "Stopped", "Playing", "Paused"}

status_into(status) == [MediaPlaybackStatus |-> status]

\* The native properties of a MediaPlayer nobody has written yet; the two
\* enabled flags start as the OS decides.
FreshPlayer ==
    [handle : {FALSE}, IsEnabled : BOOLEAN, CommandManagerIsEnabled : BOOLEAN,
     ShuffleEnabled : {FALSE}, AutoRepeatMode : {"None"},
     PlaybackStatus : {status_into("Closed")},
     Timeline : {timeline_into([positionMs |-> 0, minSeekMs |-> 0,
                                maxSeekMs |-> 0]).value}]

\* No SMTCInternal value exists: nothing of the process refers to a player.
NoSession ==
    CHOOSE s \in FreshPlayer : ~s.IsEnabled /\ ~s.CommandManagerIsEnabled

NewCalls ==
    {"MediaPlayer::new", "SystemMediaTransportControls", "CommandManager",
     "CommandManager.SetIsEnabled", "SetIsEnabled"}

\* SMTCInternal::new on a fresh player: every call is followed by `?`, so the
\* first failure returns the error and drops the player.
New_ignoreEnabled(fresh, enabled, fault) ==
    IF fault \in NewCalls
    THEN [status |-> "Err", session |-> NoSession]
    ELSE [status |-> "Ok",
          session |-> [fresh EXCEPT !.handle = TRUE,
                                    !.CommandManagerIsEnabled = FALSE]]

New(fresh, enabled, fault) ==
    IF fault \in NewCalls
    THEN [status |-> "Err", session |-> NoSession]
    ELSE [status |-> "Ok",
          session |-> [fresh EXCEPT !.handle = TRUE,
                                    !.CommandManagerIsEnabled = FALSE,
                                    !.IsEnabled = unwrap_or(enabled, TRUE)]]

call_new(enabled, fault) ==
    /\ process = "running"
    /\ Idle
    /\ ~session.handle
    /\ call' = [op |-> "new", phase |-> "invoked", enabled |-> enabled,
                fault |-> fault, status |-> "Pending"]
    /\ UNCHANGED <<process, flags, pending, displayed, handlers, emitted, event,
                   session, lookup, threads, counts>>

new ==
    /\ process = "running"
    /\ Runs("new")
    /\ \E fresh \in FreshPlayer :
           LET r == New(fresh, call.enabled, call.fault)
           IN /\ session' = r.session
              /\ call' = [call EXCEPT !.phase = "returned",
                                      !.status = r.status]
    /\ UNCHANGED <<process, flags, pending, displayed, handlers, emitted, event,
                   lookup, threads, counts>>

\* The native calls of the operations that write one property.
SetterCalls(setter) == {"SystemMediaTransportControls", setter}

\* An operation that gets the transport controls and writes one property:
\* the write happens when neither call fails.
WriteProperty(s, property, value, fault) ==
    IF fault = NoFault
    THEN [status |-> "Ok", session |-> [s EXCEPT ![property] = value]]
    ELSE [status |-> "Err", session |-> s]

\* The body of such an operation as a step; the returned call keeps its
\* arguments beside the result.
Body(op, r) ==
    /\ process = "running"
    /\ session' = r.session
    /\ call' = [call EXCEPT !.phase = "returned", !.status = r.status]
    /\ UNCHANGED <<process, flags, pending, displayed, handlers, emitted, event,
                   lookup, threads, counts>>

\* The call of an operation on the SMTCInternal value.
Call(invocation) ==
    /\ process = "running"
    /\ Idle
    /\ session.handle
    /\ call' = invocation
    /\ UNCHANGED <<process, flags, pending, displayed, handlers, emitted, event,
                   session, lookup, threads, counts>>

\* update_timeline: the conversion result is unwrapped with `?` before
\* UpdateTimelineProperties is called.
UpdateTimeline_writeOnError(s, timeline, fault) ==
    IF fault = "SystemMediaTransportControls"
    THEN [status |-> "Err", session |-> s]
    ELSE LET timeline_properties == timeline_into(timeline)
         IN IF ~timeline_properties.ok
            THEN [status |-> "Invalid",
                  session |-> [s EXCEPT !.Timeline =
                                   [Position |-> timeline.minSeekMs * 10000,
                                    MinSeekTime |-> timeline.minSeekMs * 10000,
                                    MaxSeekTime |-> timeline.maxSeekMs * 10000]]]
            ELSE WriteProperty(s, "Timeline", timeline_properties.value,
                               fault)

UpdateTimeline(s, timeline, fault) ==
    IF fault = "SystemMediaTransportControls"
    THEN [status |-> "Err", session |-> s]
    ELSE LET timeline_properties == timeline_into(timeline)
         IN IF ~timeline_properties.ok
            THEN [status |-> "Invalid", session |-> s]
            ELSE WriteProperty(s, "Timeline", timeline_properties.value,
                               fault)

\* The native calls update_timeline makes on a timeline.
TimelineCalls(timeline) ==
    IF timeline_into(timeline).ok
    THEN SetterCalls("UpdateTimelineProperties")
    ELSE {"SystemMediaTransportControls"}

call_update_timeline(timeline, fault) ==
    /\ fault \in {NoFault} \cup TimelineCalls(timeline)
    /\ Call([op |-> "update_timeline", phase |-> "invoked",
             timeline |-> timeline, fault |-> fault,
             status |-> "Pending"])

update_timeline ==
    /\ Runs("update_timeline")
    /\ Body("update_timeline", UpdateTimeline(session, call.timeline, call.fault))

call_update_playback_status(status, fault) ==
    /\ fault \in {NoFault} \cup SetterCalls("SetPlaybackStatus")
    /\ Call([op |-> "update_playback_status", phase |-> "invoked",
             playback_status |-> status, fault |-> fault,
             status |-> "Pending"])

update_playback_status ==
    /\ Runs("update_playback_status")
    /\ Body("update_playback_status",
            WriteProperty(session, "PlaybackStatus", status_into(call.playback_status),
                          call.fault))

call_update_shuffle(shuffle, fault) ==
    /\ fault \in {NoFault} \cup SetterCalls("SetShuffleEnabled")
    /\ Call([op |-> "update_shuffle", phase |-> "invoked",
             shuffle |-> shuffle, fault |-> fault,
             status |-> "Pending"])

update_shuffle ==
    /\ Runs("update_shuffle")
    /\ Body("update_shuffle",
            WriteProperty(session, "ShuffleEnabled", call.shuffle, call.fault))

\* The strings handed to update_repeat_mode.
RepeatModeStrings == {"none", "track", "list", "TRACK", "", "shuffle"}

\* The `match repeat_mode.as_str()` of update_repeat_mode.
AutoRepeatMode_ignoreCase(repeat_mode) ==
    CASE repeat_mode = "none" -> "None"
      [] repeat_mode \in {"track", "TRACK"} -> "Track"
      [] repeat_mode = "list" -> "List"
      [] OTHER -> "None"

AutoRepeatMode(repeat_mode) ==
    CASE repeat_mode = "none" -> "None"
      [] repeat_mode = "track" -> "Track"
      [] repeat_mode = "list" -> "List"
      [] OTHER -> "None"

call_update_repeat_mode(repeat_mode, fault) ==
    /\ fault \in {NoFault} \cup SetterCalls("SetAutoRepeatMode")
    /\ Call([op |-> "update_repeat_mode", phase |-> "invoked",
             repeat_mode |-> repeat_mode, fault |-> fault,
             status |-> "Pending"])

update_repeat_mode ==
    /\ Runs("update_repeat_mode")
    /\ Body("update_repeat_mode",
            WriteProperty(session, "AutoRepeatMode",
                          AutoRepeatMode(call.repeat_mode), call.fault))

call_enable_smtc(fault) ==
    /\ fault \in {NoFault} \cup SetterCalls("SetIsEnabled")
    /\ Call([op |-> "enable_smtc", phase |-> "invoked", fault |-> fault,
             status |-> "Pending"])

enable_smtc_toggle ==
    /\ Runs("enable_smtc")
    /\ Body("enable_smtc",
            WriteProperty(session, "IsEnabled", ~session.IsEnabled, call.fault))

enable_smtc ==
    /\ Runs("enable_smtc")
    /\ Body("enable_smtc", WriteProperty(session, "IsEnabled", TRUE, call.fault))

call_disable_smtc(fault) ==
    /\ fault \in {NoFault} \cup SetterCalls("SetIsEnabled")
    /\ Call([op |-> "disable_smtc", phase |-> "invoked", fault |-> fault,
             status |-> "Pending"])

disable_smtc ==
    /\ Runs("disable_smtc")
    /\ Body("disable_smtc",
            WriteProperty(session, "IsEnabled", FALSE, call.fault))

(***************************************************************************)
(* Event delivery on the threads of the OS.                                *)
(***************************************************************************)

\* The events the OS raises in one behaviour.
MaxEvents == 3

Threads == {"T1", "T2"}

\* A thread that is delivering no event.
Quiet == [stage |-> "quiet"]

\* The match of the closure takes an arm that adds an item: every arm of the
\* position, shuffle and repeat-mode closures, the ten named arms of the
\* button closure.
Matched(category, args) ==
    /\ args.present
    /\ args.readable
    /\ category = "button" => args.value # "Unnamed"

\* A thread goes on to the next installed handler, or has delivered the event.
Proceed(thread) ==
    IF Len(thread.remaining) > 1
    THEN [stage |-> "calling", category |-> thread.category,
          args |-> thread.args, remaining |-> Tail(thread.remaining)]
    ELSE Quiet

\* The OS raises an event on thread t: the thread will call the handlers
\* installed for the category at this moment, in the order they were added.
Raise(t, category, args) ==
    /\ process = "running"
    /\ threads[t] = Quiet
    /\ handlers[category] # <<>>
    /\ counts.raised < MaxEvents
    /\ threads' = [threads EXCEPT ![t] =
                       [stage |-> "calling", category |-> category,
                        args |-> args, remaining |-> handlers[category]]]
    /\ counts' = [counts EXCEPT !.raised = @ + 1]
    /\ UNCHANGED <<process, flags, pending, displayed, handlers, emitted, event,
                   call, session, lookup>>

\* Thread t calls the next handler closure, which reads the arguments and
\* takes an arm of its match.  A panic leaves the delivery (and may abort the
\* process); an arm without an item returns Ok(()).
Invoke(t) ==
    /\ process = "running"
    /\ threads[t].stage = "calling"
    /\ LET thread == threads[t]
           h == Handler(thread.category, thread.args)
       IN IF h.panic
          THEN /\ process' \in {"running", "aborted"}
               /\ threads' = [threads EXCEPT ![t] = Quiet]
               /\ UNCHANGED counts
          ELSE /\ UNCHANGED process
               /\ counts' =
                      IF Matched(thread.category, thread.args)
                      THEN [counts EXCEPT
                                !.matched[Head(thread.remaining)] = @ + 1]
                      ELSE counts
               /\ threads' = [threads EXCEPT ![t] =
                                  IF h.items = <<>> THEN Proceed(thread)
                                  ELSE [thread EXCEPT !.stage = "adding"]]
    /\ UNCHANGED <<flags, pending, displayed, handlers, emitted, event, call,
                   session, lookup>>

\* `sink.add(..)` of the closure thread t is in, and its return of Ok(()):
\* the items are appended to the stream of the sink in one step.
add_writesNative(t) ==
    /\ process = "running"
    /\ threads[t].stage = "adding"
    /\ LET thread == threads[t]
           h == Handler(thread.category, thread.args)
       IN /\ emitted' = [emitted EXCEPT ![Head(thread.remaining)] =
                                           @ \o h.items]
          /\ threads' = [threads EXCEPT ![t] = Proceed(thread)]
          /\ session' = IF thread.category = "shuffle"
                        THEN [session EXCEPT !.ShuffleEnabled = h.items[1]]
                        ELSE session
    /\ UNCHANGED <<process, flags, pending, displayed, handlers, event, call,
                   lookup, counts>>

add(t) ==
    /\ process = "running"
    /\ threads[t].stage = "adding"
    /\ LET thread == threads[t]
           h == Handler(thread.category, thread.args)
       IN /\ emitted' = [emitted EXCEPT ![Head(thread.remaining)] =
                                           @ \o h.items]
          /\ threads' = [threads EXCEPT ![t] = Proceed(thread)]
    /\ UNCHANGED <<process, flags, pending, displayed, handlers, event, call,
                   session, lookup, counts>>

(***************************************************************************)
(* Initial state: the session right after SMTCInternal::new.               *)
(***************************************************************************)

Init ==
    /\ process = "running"
    /\ flags = [f \in FlagSet |-> FALSE]
    /\ pending = Cleared
    /\ displayed = Cleared
    /\ handlers = [c \in Categories |-> <<>>]
    /\ emitted = NothingEmitted
    /\ event = [category |-> "none", args |-> None, installed |-> <<>>,
                ack |-> "Ok"]
    /\ call = Returned("new", "Ok")
    /\ session = New(NoSession, None, NoFault).session
    /\ lookup = "idle"
    /\ threads = [t \in Threads |-> Quiet]
    /\ counts = [raised |-> 0, matched |-> [s \in Sinks |-> 0]]

NextConfig ==
    \/ /\ Idle
       /\ \E config \in SMTCConfig, fault \in {NoFault} \cup ConfigCalls :
              call_update_config(config, fault)
    \/ update_config

SpecConfig == Init /\ [][NextConfig]_vars

NextMetadata ==
    \/ /\ Idle
       /\ \E metadata \in MetadataSamples, app_id \in AppIds :
              \E fault \in {NoFault} \cup MetadataCalls(metadata, app_id) :
                  call_update_metadata(metadata, app_id, fault)
    \/ GetFileFromPathAsync_completes
    \/ update_metadata
    \/ \E fault \in {NoFault} \cup ClearMetadataCalls : call_clear_metadata(fault)
    \/ clear_metadata

SpecMetadata == Init /\ [][NextMetadata]_vars

NextEvents ==
    \/ \E sink \in Sinks, fault \in {NoFault} \cup RegistrationCalls("button") :
           button_press_event(sink, fault)
    \/ \E sink \in Sinks,
          fault \in {NoFault} \cup RegistrationCalls("position") :
           position_change_request_event(sink, fault)
    \/ \E sink \in Sinks, fault \in {NoFault} \cup RegistrationCalls("shuffle") :
           shuffle_request_event(sink, fault)
    \/ \E sink \in Sinks, fault \in {NoFault} \cup RegistrationCalls("repeat") :
           repeat_mode_request_event(sink, fault)
    \/ \E args \in EventArgs("button") : ButtonPressed(args)
    \/ \E args \in EventArgs("position") : PlaybackPositionChangeRequested(args)
    \/ \E args \in EventArgs("shuffle") : ShuffleEnabledChangeRequested(args)
    \/ \E args \in EventArgs("repeat") : AutoRepeatModeChangeRequested(args)

SpecEvents == Init /\ [][NextEvents]_vars

\* The process before SMTCInternal::new has been called.
InitProcess ==
    /\ process = "running"
    /\ flags = [f \in FlagSet |-> FALSE]
    /\ pending = Cleared
    /\ displayed = Cleared
    /\ handlers = [c \in Categories |-> <<>>]
    /\ emitted = NothingEmitted
    /\ event = [category |-> "none", args |-> None, installed |-> <<>>,
                ack |-> "Ok"]
    /\ call = Returned("main", "Ok")
    /\ session = NoSession
    /\ lookup = "idle"
    /\ threads = [t \in Threads |-> Quiet]
    /\ counts = [raised |-> 0, matched |-> [s \in Sinks |-> 0]]

NextSession ==
    \/ \E enabled \in {None, Some(TRUE), Some(FALSE)},
          fault \in {NoFault} \cup NewCalls : call_new(enabled, fault)
    \/ new
    \/ \E fault \in {NoFault} \cup SetterCalls("SetIsEnabled") :
           call_enable_smtc(fault)
    \/ enable_smtc
    \/ \E fault \in {NoFault} \cup SetterCalls("SetIsEnabled") :
           call_disable_smtc(fault)
    \/ disable_smtc
    \/ \E shuffle \in BOOLEAN,
          fault \in {NoFault} \cup SetterCalls("SetShuffleEnabled") :
           call_update_shuffle(shuffle, fault)
    \/ update_shuffle
    \/ \E repeat_mode \in RepeatModeStrings,
          fault \in {NoFault} \cup SetterCalls("SetAutoRepeatMode") :
           call_update_repeat_mode(repeat_mode, fault)
    \/ update_repeat_mode
    \/ \E status \in PlaybackStatus,
          fault \in {NoFault} \cup SetterCalls("SetPlaybackStatus") :
           call_update_playback_status(status, fault)
    \/ update_playback_status
    \/ \E timeline \in PlaybackTimeline :
           \E fault \in {NoFault} \cup TimelineCalls(timeline) :
               call_update_timeline(timeline, fault)
    \/ update_timeline

SpecSession == InitProcess /\ [][NextSession]_vars

NextThumbnails ==
    \/ /\ Idle
       /\ \E metadata \in ThumbnailSamples :
              \E fault \in {NoFault} \cup MetadataCalls(metadata, None) :
                  call_update_metadata(metadata, None, fault)
    \/ GetFileFromPathAsync_completes
    \/ update_metadata

SpecThumbnails == Init /\ [][NextThumbnails]_vars

\* Every update operation on one handle, on a few arguments each.
NextUpdates ==
    \/ /\ Idle
       /\ \E config \in {c \in SMTCConfig :
                             \A i \in 1..Len(FlagNames) :
                                 ConfigWrites(c)[i] = c.play_enabled} :
              call_update_config(config, NoFault)
    \/ update_config
    \/ /\ Idle
       /\ \E metadata \in MetadataSamples :
              \E fault \in {NoFault} \cup
                            (MetadataCalls(metadata, None) \cap
                               {"ClearAll", "GetFileFromPathAsync"}) :
                  call_update_metadata(metadata, None, fault)
    \/ GetFileFromPathAsync_completes
    \/ update_metadata
    \/ call_clear_metadata(NoFault)
    \/ clear_metadata
    \/ \E timeline \in {t \in PlaybackTimeline :
                             t.minSeekMs = 5 /\ t.maxSeekMs = 5} :
           call_update_timeline(timeline, NoFault)
    \/ update_timeline
    \/ call_update_playback_status("Playing", NoFault)
    \/ update_playback_status
    \/ call_update_shuffle(TRUE, NoFault)
    \/ update_shuffle
    \/ call_update_repeat_mode("track", NoFault)
    \/ update_repeat_mode
    \/ call_enable_smtc(NoFault)
    \/ enable_smtc
    \/ call_disable_smtc(NoFault)
    \/ disable_smtc

SpecUpdates == Init /\ [][NextUpdates]_vars

\* Events delivered on the threads of the OS while the application thread
\* registers handlers and calls update operations.
ThreadedArgs(category) ==
    CASE category = "button" ->
             {a \in EventArgs("button") :
                  \/ ~a.present
                  \/ a.readable /\ a.value \in {"Play", "Unnamed"}}
      [] category = "position" ->
             {a \in EventArgs("position") : a.value = 5000 /\ a.readable}
      [] category = "shuffle" ->
             {a \in EventArgs("shuffle") : a.value /\ a.readable}
      [] category = "repeat" ->
             {a \in EventArgs("repeat") : a.value = "Track" /\ a.readable}

NextConcurrent ==
    \/ button_press_event("S1", NoFault)
    \/ position_change_request_event("S2", NoFault)
    \/ shuffle_request_event("S2", NoFault)
    \/ repeat_mode_request_event("S1", NoFault)
    \/ \E t \in Threads, category \in Categories :
           \E args \in ThreadedArgs(category) : Raise(t, category, args)
    \/ \E t \in Threads : Invoke(t)
    \/ \E t \in Threads : add(t)
    \/ call_update_shuffle(TRUE, NoFault)
    \/ update_shuffle
    \/ call_update_repeat_mode("track", NoFault)
    \/ update_repeat_mode

SpecConcurrent == Init /\ [][NextConcurrent]_vars

(***************************************************************************)
(* Properties                                                              *)
(***************************************************************************)

\* The text properties, the type and the application id that a call of
\* update_metadata supplies, as DisplayUpdater properties.
TextCommitted(shown, metadata) ==
    /\ shown.Title \in (IF metadata.title = None THEN {""} ELSE metadata.title)
    /\ shown.Artist \in (IF metadata.artist = None THEN {""} ELSE metadata.artist)
    /\ shown.AlbumTitle \in
           (IF metadata.album = None THEN {""} ELSE metadata.album)
    /\ shown.AlbumArtist \in
           (IF metadata.album_artist = None THEN {""} ELSE metadata.album_artist)

IsUrl(metadata) ==
    /\ metadata.thumbnail # None
    /\ starts_with(Unwrap(metadata.thumbnail), "http")

IsLocal(metadata) ==
    /\ metadata.thumbnail # None
    /\ ~starts_with(Unwrap(metadata.thumbnail), "http")

\* C1: when update_metadata is called with a thumbnail reference that begins
\* with "http" and the construction of the URI or of the stream reference
\* bound to it fails, the call returns Ok (it does not panic or return an
\* error), the thumbnail is committed as cleared and the present text fields
\* are committed.
C1_UrlFailureIsSwallowed ==
    [][(/\ Runs("update_metadata")
        /\ IsUrl(call.metadata)
        /\ call.fault \in {"CreateUri", "CreateFromUri"})
       => (/\ call'.status = "Ok"
           /\ displayed'.Thumbnail = NullReference
           /\ TextCommitted(displayed', call.metadata))]_vars

\* C2: when update_metadata is called with a thumbnail reference that does
\* not begin with "http" and the file lookup fails or the stream reference
\* cannot be built from the file, and every other native call succeeds, the
\* call returns Ok, the thumbnail is committed as cleared and the present
\* text fields are committed.
C2_LocalFailureIsSwallowed ==
    [][(/\ Runs("update_metadata")
        /\ IsLocal(call.metadata)
        /\ call.fault \in {"GetFileFromPathAsync", "get", "CreateFromFile"})
       => (/\ call'.status = "Ok"
           /\ displayed'.Thumbnail = NullReference
           /\ TextCommitted(displayed', call.metadata))]_vars

\* C3: when a handler of any of the four categories is called with absent
\* event arguments or with arguments whose getter fails, it does not panic:
\* the event is acknowledged with Ok, the process keeps running and nothing
\* is emitted on a sink.
C3_MalformedEventIsDropped ==
    (event.category \in Categories
        /\ (~event.args.present \/ ~event.args.readable))
    => (event.ack = "Ok" /\ process = "running" /\ emitted = NothingEmitted)

\* C4: after a category was registered with one sink and later with another,
\* a native event of the category emits on the sink registered last and
\* nothing on the other one.
C4_LastRegistrationWins ==
    (event.category \in Categories /\ event.ack = "Ok")
    => \A s \in Sinks :
           emitted[s] # <<>> => s = event.installed[Len(event.installed)]

\* C5: the value the seek handler emits is the requested position, which the
\* event carries in 100 ns units, as a whole number of milliseconds.
C5_SeekEmitsMilliseconds ==
    (event.category = "position" /\ event.ack = "Ok")
    => \A s \in Sinks : \A i \in 1..Len(emitted[s]) :
           emitted[s][i] = event.args.value \div 10000

\* C6: a call of update_metadata that returns Ok leaves the committed
\* properties equal to what the call supplied: each text field is the value
\* of the metadata when present and cleared when absent, the type is music,
\* the application id is app_id when given and cleared otherwise.
C6_CommittedIsWhatWasSupplied ==
    [][(Runs("update_metadata") /\ call'.status = "Ok")
       => (/\ TextCommitted(displayed', call.metadata)
           /\ displayed'.Type = "Music"
           /\ displayed'.AppMediaId \in
                  (IF call.app_id = None THEN {""} ELSE call.app_id))]_vars

\* C7: in update_metadata the failure of a native write other than the
\* thumbnail resolution (application id, artist, album title, title, album
\* artist, type, thumbnail property, commit) makes the call return an error,
\* and no commit is issued after it.
C7_WriteFailurePropagates ==
    [][(/\ Runs("update_metadata")
        /\ call.fault \in {"SetAppMediaId", "SetArtist", "SetAlbumTitle",
                           "SetTitle", "SetAlbumArtist", "SetType",
                           "SetThumbnail", "Update"})
       => (call'.status = "Err" /\ displayed' = displayed)]_vars

\* C8: a call of update_metadata or clear_metadata that returns an error
\* leaves the displayed properties as they were; the displayed properties
\* change only in a call of one of the two that returns Ok, and then every
\* displayed property is cleared or a value this call supplied, never one
\* left pending by an earlier call.
C8_FailedUpdateChangesNothingShown ==
    [][/\ ((Runs("update_metadata") \/ Runs("clear_metadata"))
            /\ call'.status = "Err") => displayed' = displayed
       /\ displayed' # displayed =>
            /\ Runs("update_metadata") \/ Runs("clear_metadata")
            /\ call'.status = "Ok"
            /\ displayed' = pending'
            /\ Runs("clear_metadata") => displayed' = Cleared
            /\ Runs("update_metadata") =>
                 /\ displayed'.Title \in {""} \cup call.metadata.title
                 /\ displayed'.Artist \in {""} \cup call.metadata.artist
                 /\ displayed'.AlbumTitle \in {""} \cup call.metadata.album
                 /\ displayed'.AlbumArtist \in
                        {""} \cup call.metadata.album_artist
                 /\ displayed'.AppMediaId \in {""} \cup call.app_id
                 /\ displayed'.Thumbnail.of \in {""} \cup call.metadata.thumbnail
      ]_vars

\* A failed update_metadata has left half-written pending properties beside
\* displayed properties of an earlier publish.
C8_Witness ==
    /\ call = Returned("update_metadata", "Err")
    /\ displayed.Type = "Music"
    /\ displayed.Title = "t1"
    /\ pending.Title = "t2"
    /\ pending # displayed

\* The native flags a config asks for.
ConfigFlags(config) ==
    [IsPlayEnabled |-> config.play_enabled,
     IsPauseEnabled |-> config.pause_enabled,
     IsNextEnabled |-> config.next_enabled,
     IsPreviousEnabled |-> config.prev_enabled,
     IsFastForwardEnabled |-> config.fast_forward_enabled,
     IsRewindEnabled |-> config.rewind_enabled,
     IsStopEnabled |-> config.stop_enabled]

\* C9: when update_config returns Ok, each of the seven native flags equals
\* the flag of the config, whatever the flags were before.
C9_ConfigAppliedWholesale ==
    [][(Runs("update_config") /\ call'.status = "Ok")
       => flags' = ConfigFlags(call.config)]_vars

\* update_config has returned Ok on a config with flags of both values.
C9_Witness ==
    /\ call = Returned("update_config", "Ok")
    /\ flags["IsPlayEnabled"] /\ ~flags["IsPauseEnabled"]
    /\ flags["IsNextEnabled"] /\ ~flags["IsPreviousEnabled"]
    /\ ~flags["IsFastForwardEnabled"] /\ flags["IsRewindEnabled"]
    /\ ~flags["IsStopEnabled"]

\* The number of flags update_config has written when the call `fault` fails.
WrittenBefore(fault) ==
    IF fault = "SystemMediaTransportControls" THEN 0
    ELSE (CHOOSE i \in 1..Len(FlagSetters) : FlagSetters[i] = fault) - 1

\* C10: when a native call of update_config fails, the call returns the
\* error; the flags before the failing one in the order play, pause, next,
\* previous, fast-forward, rewind, stop have the values of the config, the
\* failing flag and the flags after it have the values they had before.
C10_FirstFailureStopsTheWrites ==
    [][Runs("update_config") =>
         /\ call'.status = "Err" <=> call.fault # NoFault
         /\ call.fault # NoFault =>
              \A i \in 1..Len(FlagNames) :
                  flags'[FlagNames[i]] =
                      IF i <= WrittenBefore(call.fault)
                      THEN ConfigFlags(call.config)[FlagNames[i]]
                      ELSE flags[FlagNames[i]]]_vars

\* update_config has failed after writing play, pause and next.
C10_Witness ==
    /\ call = Returned("update_config", "Err")
    /\ flags["IsPlayEnabled"] /\ flags["IsPauseEnabled"]
    /\ flags["IsNextEnabled"] /\ ~flags["IsPreviousEnabled"]
    /\ ~flags["IsFastForwardEnabled"] /\ ~flags["IsRewindEnabled"]
    /\ ~flags["IsStopEnabled"]

\* The native repeat mode the documentation of update_repeat_mode gives for
\* a string.
RepeatModeOf(s) ==
    IF s = "track" THEN "Track" ELSE IF s = "list" THEN "List" ELSE "None"

\* C11: update_repeat_mode writes None for "none", Track for "track", List
\* for "list" and None for every other string, "TRACK", "" and "shuffle"
\* among them; it returns an error exactly when one of its native calls
\* fails, and then writes nothing.
C11_RepeatModeMapping ==
    [][Runs("update_repeat_mode") =>
         /\ call'.status = "Err" <=> call.fault # NoFault
         /\ call.fault = NoFault =>
              session'.AutoRepeatMode = RepeatModeOf(call.repeat_mode)
         /\ call.fault # NoFault => session' = session
      ]_vars

\* update_repeat_mode("TRACK") has returned Ok and the repeat mode is None.
C11_Witness ==
    /\ Idle
    /\ call.op = "update_repeat_mode"
    /\ call.repeat_mode = "TRACK"
    /\ call.status = "Ok"
    /\ session.AutoRepeatMode = "None"

\* The token the documentation gives for each named button.
ButtonToken ==
    [Play |-> "play", Pause |-> "pause", Next |-> "next",
     Previous |-> "previous", FastForward |-> "fast_forward",
     Rewind |-> "rewind", Stop |-> "stop", Record |-> "record",
     ChannelUp |-> "channel_up", ChannelDown |-> "channel_down"]

\* The last event carried arguments the handler could read.
WellFormed == event.args.present /\ event.args.readable

\* C12: after a button event delivered to a single registered sink, the sink
\* has received exactly the token of the button when the button is one of
\* the ten named ones, and nothing when it is any other button; in both
\* cases the handler has returned Ok.
C12_ButtonTokens ==
    (event.category = "button" /\ Len(event.installed) = 1 /\ WellFormed) =>
        /\ event.ack = "Ok"
        /\ \A s \in Sinks :
               emitted[s] =
                   IF s # event.installed[1] THEN <<>>
                   ELSE IF event.args.value \in DOMAIN ButtonToken
                   THEN <<ButtonToken[event.args.value]>>
                   ELSE <<>>

\* A button outside the ten named ones was delivered to the single sink S1:
\* nothing was emitted and the handler returned Ok.
C12_Witness ==
    /\ event.category = "button"
    /\ event.installed = <<"S1">>
    /\ WellFormed
    /\ event.args.value = "Unnamed"
    /\ event.ack = "Ok"
    /\ emitted = NothingEmitted

\* The string the documentation gives for a requested repeat mode.
RepeatToken(mode) ==
    IF mode = "Track" THEN "track" ELSE IF mode = "List" THEN "list" ELSE "none"

\* C17: after a repeat-mode request whose arguments carry a mode, every
\* installed handler has returned Ok and has emitted exactly one string on
\* its sink: "none" for None, "track" for Track, "list" for List and "none"
\* for any other native value.
C17_RepeatModeTokens ==
    (event.category = "repeat" /\ WellFormed) =>
        /\ event.ack = "Ok"
        /\ \A s \in Sinks :
               /\ Len(emitted[s]) =
                      Cardinality({i \in DOMAIN event.installed :
                                      event.installed[i] = s})
               /\ \A i \in DOMAIN emitted[s] :
                      emitted[s][i] = RepeatToken(event.args.value)

\* A repeat mode outside None, Track and List was delivered: the sink of the
\* one installed handler has received "none".
C17_Witness ==
    /\ event.category = "repeat"
    /\ WellFormed
    /\ event.args.value = "Unnamed"
    /\ event.installed = <<"S1">>
    /\ emitted["S1"] = <<"none">>
    /\ emitted["S2"] = <<>>

\* C15: a call of enable_smtc or disable_smtc returns an error only when one
\* of its native calls fails; when it returns Ok the enabled flag is true
\* after enable_smtc and false after disable_smtc, whatever it was before,
\* so that a repeated call changes nothing; a failed call leaves the flag;
\* and no other operation on the handle changes the flag.
C15_EnableDisableIdempotent ==
    [][/\ Runs("enable_smtc") =>
            /\ call'.status = "Ok" <=> call.fault = NoFault
            /\ call'.status = "Ok" => session'.IsEnabled = TRUE
            /\ call'.status = "Err" => session' = session
            /\ (session.IsEnabled /\ call.fault = NoFault) =>
                   session' = session
       /\ Runs("disable_smtc") =>
            /\ call'.status = "Ok" <=> call.fault = NoFault
            /\ call'.status = "Ok" => session'.IsEnabled = FALSE
            /\ call'.status = "Err" => session' = session
            /\ (~session.IsEnabled /\ call.fault = NoFault) =>
                   session' = session
       /\ session'.IsEnabled # session.IsEnabled =>
            Runs("enable_smtc") \/ Runs("disable_smtc") \/ Runs("new")
      ]_vars

\* enable_smtc has returned Ok and the session is enabled.
C15_Witness ==
    /\ Idle
    /\ call.op = "enable_smtc"
    /\ call.status = "Ok"
    /\ session.handle
    /\ session.IsEnabled

\* C16: SMTCInternal::new returns an error exactly when one of its native
\* calls fails, and then there is no handle; when it returns Ok there is a
\* handle, the command manager of the player is disabled and the enabled
\* flag is the given value, or true when no value is given.
C16_Create ==
    [][Runs("new") =>
         /\ call'.status = "Ok" <=> call.fault = NoFault
         /\ call'.status = "Ok" =>
              /\ session'.handle
              /\ session'.CommandManagerIsEnabled = FALSE
              /\ session'.IsEnabled = (call.enabled # {FALSE})
         /\ call'.status # "Ok" => ~session'.handle
      ]_vars

\* new(None) has returned a handle: enabled, command manager disabled.
C16_Witness ==
    /\ Idle
    /\ call.op = "new"
    /\ call.enabled = None
    /\ call.status = "Ok"
    /\ session.handle
    /\ session.IsEnabled
    /\ ~session.CommandManagerIsEnabled

\* C18: when the conversion of the timeline gives an error, update_timeline
\* returns that error and the native session, its timeline properties
\* included, is as it was before the call.
C18_InvalidTimelineIsNotWritten ==
    [][(/\ Runs("update_timeline")
        /\ call.fault # "SystemMediaTransportControls"
        /\ ~timeline_into(call.timeline).ok)
       => (call'.status = "Invalid" /\ session' = session)]_vars

\* update_timeline has returned the conversion error for a position after
\* the end of the seek range, on a session whose timeline an earlier call
\* wrote.
C18_Witness ==
    /\ Idle
    /\ call.op = "update_timeline"
    /\ call.status = "Invalid"
    /\ call.timeline = [positionMs |-> 5, minSeekMs |-> 0, maxSeekMs |-> 0]
    /\ session.Timeline.MaxSeekTime = 50000

\* The references of ThumbnailSamples that begin with the four characters
\* h, t, t, p.
HttpPrefixed == {"http://h/a.png", "https://h/a.png", "httpfoo", "http"}

\* The calls whose failure ends update_metadata before the thumbnail.
BeforeThumbnail ==
    {"SystemMediaTransportControls", "DisplayUpdater", "ClearAll", "SetType",
     "MusicProperties"}

\* C14: a call of update_metadata that gets as far as the thumbnail makes
\* the file lookup exactly when the reference is present and does not begin
\* with "http"; when no native call fails, the thumbnail it publishes is the
\* URI reference of a reference that begins with "http", the file reference
\* of any other present reference, and the null reference when the
\* reference is absent.
C14_ThumbnailPath ==
    [][(Runs("update_metadata") /\ call.fault \notin BeforeThumbnail) =>
         LET thumbnail == call.metadata.thumbnail
             url == thumbnail # None /\ Unwrap(thumbnail) \in HttpPrefixed
             file == thumbnail # None /\ Unwrap(thumbnail) \notin HttpPrefixed
         IN /\ (lookup = "completed") <=>
                    (file /\ call.fault # "GetFileFromPathAsync")
            /\ call.fault = NoFault =>
                 /\ call'.status = "Ok"
                 /\ url => displayed'.Thumbnail =
                               [kind |-> "uri", of |-> Unwrap(thumbnail)]
                 /\ file => displayed'.Thumbnail =
                                [kind |-> "file", of |-> Unwrap(thumbnail)]
                 /\ thumbnail = None =>
                        displayed'.Thumbnail = [kind |-> "null", of |-> ""]
      ]_vars

\* update_metadata has published the reference "HTTP://h/a.png" as a file.
C14_Witness ==
    /\ call = Returned("update_metadata", "Ok")
    /\ displayed.Thumbnail = [kind |-> "file", of |-> "HTTP://h/a.png"]

\* The current call of update_metadata gets as far as waiting for the file
\* lookup of a local thumbnail reference.
ReachesLookup ==
    /\ IsLocal(call.metadata)
    /\ call.fault \notin BeforeThumbnail \cup {"GetFileFromPathAsync"}

\* C19: a call of update_metadata that has got as far as the lookup of a
\* present thumbnail reference not beginning with "http" cannot return while
\* the lookup has not completed, however long that takes, and can return
\* once it has; a call of update_metadata with an absent or "http"
\* reference, and a call of any other update operation, starts no lookup and
\* can return at once.
C19_OnlyTheFileLookupBlocks ==
    /\ (~Idle /\ call.op = "update_metadata") =>
          IF ReachesLookup
          THEN /\ lookup \in {"running", "completed"}
               /\ lookup = "running" => ~ENABLED update_metadata
               /\ lookup = "completed" => ENABLED update_metadata
          ELSE lookup = "idle" /\ ENABLED update_metadata
    /\ (~Idle /\ call.op # "update_metadata") =>
          /\ lookup = "idle"
          /\ call.op = "update_config" => ENABLED update_config
          /\ call.op = "clear_metadata" => ENABLED clear_metadata
          /\ call.op = "update_timeline" => ENABLED update_timeline
          /\ call.op = "update_playback_status" =>
                 ENABLED update_playback_status
          /\ call.op = "update_shuffle" => ENABLED update_shuffle
          /\ call.op = "update_repeat_mode" => ENABLED update_repeat_mode
          /\ call.op = "enable_smtc" => ENABLED enable_smtc
          /\ call.op = "disable_smtc" => ENABLED disable_smtc

\* update_metadata is waiting for the lookup of "C:/a.png", which has not
\* completed.
C19_Witness ==
    /\ call.op = "update_metadata"
    /\ call.phase = "waiting"
    /\ call.metadata.thumbnail = Some("C:/a.png")
    /\ lookup = "running"
    /\ displayed.Title = "t1"

\* The threads that have taken a matching arm for sink s and not yet added
\* the item.
Adding(s) ==
    {t \in Threads : threads[t].stage = "adding"
                       /\ Head(threads[t].remaining) = s}

\* Every thread and the application thread can take its next step, and no
\* item is lost or duplicated.
Live ==
    /\ \A t \in Threads :
           /\ threads[t].stage = "calling" => ENABLED Invoke(t)
           /\ threads[t].stage = "adding" => ENABLED add(t)
    /\ Idle => /\ ENABLED call_update_shuffle(TRUE, NoFault)
               /\ ENABLED call_update_repeat_mode("track", NoFault)
    /\ Runs("update_shuffle") => ENABLED update_shuffle
    /\ Runs("update_repeat_mode") => ENABLED update_repeat_mode
    /\ \A s \in Sinks :
           Len(emitted[s]) + Cardinality(Adding(s)) = counts.matched[s]

\* C13: in every interleaving of event deliveries on the threads of the OS
\* with registrations and update operations of the application thread, the
\* process keeps running with its handle, every thread that is delivering an
\* event and the application thread can take their next step, and every
\* sink has received one item for each handler run that matched, one still
\* to come for each thread that is about to add it.
C13_ConcurrentDelivery ==
    /\ process = "running"
    /\ session.handle
    /\ Live

\* C20: a step of an event delivery (an event raised, a handler closure
\* called, an item added to a sink) changes none of the capability flags,
\* the pending and displayed metadata, the enabled flag, shuffle flag,
\* repeat mode, playback status and timeline; the shuffle flag and the
\* repeat mode change only in a step of update_shuffle and
\* update_repeat_mode.
C20_HandlersWriteNoNativeState ==
    [][/\ threads' # threads =>
            UNCHANGED <<flags, pending, displayed, session>>
       /\ session' # session =>
            \/ Runs("update_shuffle")
                  /\ session' = [session EXCEPT !.ShuffleEnabled = call.shuffle]
            \/ Runs("update_repeat_mode")
                  /\ \E mode \in {"None", "Track", "List"} :
                         session' = [session EXCEPT !.AutoRepeatMode = mode]
      ]_vars

\* Sink S1 has received a request for repeat mode Track and a press of
\* Play, every delivery has ended, and the native session still has repeat
\* mode None.
C20_Witness ==
    /\ emitted["S1"] = <<"track", "play">>
    /\ \A t \in Threads : threads[t] = Quiet
    /\ session.AutoRepeatMode = "None"
    /\ session.ShuffleEnabled = FALSE

====
